---- MODULE Spec2Model ----
(***************************************************************************)
(* Model of the UDP transport binding of Open vSwitch:                     *)
(*   lib/stream-udp.c  (udp_stream : open/close/connect/recv/send/run/wait) *)
(*   lib/vconn-udp.c   (vconn_udp  : open/close/connect/recv/send/run/wait) *)
(* together with the datagram socket the stream owns.  Every state         *)
(* variable is a function of the endpoint, so that one endpoint can be     *)
(* driven against an arbitrary network (Spec) and two endpoints can be     *)
(* wired to each other (SpecPair).                                         *)
(***************************************************************************)
EXTENDS Integers, Sequences, FiniteSets, TLC

(***************************************************************************)
(* Program constants                                                       *)
(***************************************************************************)
MAX_OPENFLOW_MSG_SIZE == 65535
OFP_HEADER_LEN == 8
EAGAIN == 11
EWOULDBLOCK == 11
EMSGSIZE == 90
ECONNREFUSED == 111
EAFNOSUPPORT == 97
EMFILE == 24
EBADF == 9
EOF == -1

(***************************************************************************)
(* Bounds of the model                                                     *)
(***************************************************************************)
MaxSends == 3
MaxRxBufs == 2
MaxInject == 2
MaxWire == 2
MaxLifeSends == 1
MaxLifeRxBufs == 1
MaxLifeInject == 1
MaxLifeWire == 1
MaxIoSends == 3
MaxFlushSends == 2
MaxFlushPartial == 1
MaxPairSends == 3
MaxPairRxBufs == 3
MaxPairWire == 3

Max(a, b) == IF a >= b THEN a ELSE b
Min(a, b) == IF a <= b THEN a ELSE b

Ends == {"A", "B"}
Addrs == {"A", "B", "X"}
\* ofpbufs are numbered as they are allocated: the caller's messages from 1,
\* the receive buffers of the vconn from RxBase + 1
RxBase == 100
TxIds == 1..(Max(Max(MaxSends, MaxLifeSends), MaxPairSends) + 1)
RxIds == (RxBase + 1)..(RxBase + Max(Max(MaxRxBufs, MaxLifeRxBufs), MaxPairRxBufs) + 1)
BufIds == TxIds \cup RxIds


(***************************************************************************)
(* Byte strings.  A byte string of `size' bytes is kept as the set of its  *)
(* non-zero bytes <<index, value>> (1-based); every other byte is 0.  This *)
(* keeps 64KB messages representable.                                      *)
(***************************************************************************)
Bytes(s) == [size |-> Len(s),
             nz |-> {<<i, s[i]>> : i \in {j \in 1..Len(s) : s[j] # 0}}]
Padded(s, n) == [size |-> n, nz |-> Bytes(s).nz]
ByteAt(b, i) == IF \E p \in b.nz : p[1] = i
                THEN (CHOOSE p \in b.nz : p[1] = i)[2]
                ELSE 0
Take(b, n) == [size |-> Min(n, b.size), nz |-> {p \in b.nz : p[1] <= n}]
\* memory `mem' after the first k bytes of d were copied to its start
Store(mem, d, k) == [size |-> Max(mem.size, k),
                     nz |-> {p \in d.nz : p[1] <= k}
                            \cup {p \in mem.nz : p[1] > k}]
NoBytes == Bytes(<<>>)

\* struct ofpbuf: the allocation (id), its data area and the bytes in use
NULL == [id |-> 0, mem |-> NoBytes, size |-> 0]
ofpbuf_new(id) == [id |-> id, mem |-> NoBytes, size |-> 0]
ofpbuf_clear(b) == [b EXCEPT !.size = 0]
ofpbuf_tailroom(b) == MAX_OPENFLOW_MSG_SIZE - b.size
\* the message an ofpbuf holds: its first `size' bytes
Contents(b) == Take(b.mem, b.size)
\* a buffer built by the caller around the byte string m
MsgBuf(id, m) == [id |-> id, mem |-> m, size |-> m.size]

\* (mutation: the length field read in host order on a little-endian host)
ntohs_length_le(b) == ByteAt(b, 4) * 256 + ByteAt(b, 3)

\* ntohs(oh->length): bytes 2 and 3 of the header, big-endian
ntohs_length(b) == ByteAt(b, 3) * 256 + ByteAt(b, 4)

\* a datagram: source address, payload, and the message handed to send
\* from which it was made (NoMsg for a datagram crafted by the network)
NoMsg == [size |-> -1, nz |-> {}]
NoDgram == [src |-> "none", data |-> NoBytes, of |-> NoMsg]

VARIABLES
    fd,         \* socket handle of the endpoint: "none", "open", "closed"
    fdCloses,   \* number of close() calls made on the handle
    nonblock,   \* O_NONBLOCK set on the handle
    kpeer,      \* default peer the kernel holds after connect(), or "none"
    inq,        \* datagrams waiting in the socket's receive queue
    wire,       \* datagrams the socket accepted for transmission, in order
    stream,     \* struct udp_stream: "none", "open", "freed"
    remote,     \* udp_stream.remote
    connected,  \* udp_stream.connected
    vconn,      \* struct vconn_udp: "none", "open", "freed"
    cstatus,    \* connect_status handed to vconn_init
    rxbuf,      \* vconn_udp.rxbuf
    txbuf,      \* vconn_udp.txbuf
    last,       \* the last call made on the endpoint and what it returned
    rhist,      \* what the last two recv calls found: <<earlier, latest>>
    got,        \* buffers recv handed to the caller, in order
    nbuf,       \* number of ofpbufs allocated so far: [tx, rx]
    frees,      \* number of times each ofpbuf was freed
    fate,       \* what became of each ofpbuf handed to send
    ninj,       \* number of datagrams the network injected so far
    carried,    \* <<endpoint, index>> of the wire datagrams already delivered
    ub          \* an operation touched a freed vconn_udp

vars == <<fd, fdCloses, nonblock, kpeer, inq, wire, stream, remote, connected,
          vconn, cstatus, rxbuf, txbuf, last, rhist, got, nbuf,
          frees, fate, ninj, carried, ub>>

sockVars == <<fd, fdCloses, nonblock, kpeer>>
streamVars == <<stream, remote, connected>>
heapVars == <<nbuf, frees, fate>>

\* the record of a call: operation, return value, buffer stored through
\* *msgp, datagram taken from the socket, calls made to stream send/recv,
\* result of the stream call (0 when none was made), events the call
\* registered with the poll loop (POLLIN, POLLOUT through poll_fd_wait,
\* WAKE through poll_immediate_wake), interest a wait was asked for,
\* <<retval, errno>> of the socket call the stream made
Call(op, ret, msg, read, nsend, nrecv, sret) ==
    [op |-> op, ret |-> ret, msg |-> msg, read |-> read,
     nsend |-> nsend, nrecv |-> nrecv, sret |-> sret, reg |-> {},
     want |-> "none", sys |-> [retval |-> 0, errno |-> 0]]
\* the record of a call whose stream call ended in socket outcome o
IoCall(c, o) == [c EXCEPT !.sys = o]
NoCall == Call("none", 0, NULL, NoDgram, 0, 0, 0)

Init ==
    /\ fd = [v \in Ends |-> "none"]
    /\ fdCloses = [v \in Ends |-> 0]
    /\ nonblock = [v \in Ends |-> FALSE]
    /\ kpeer = [v \in Ends |-> "none"]
    /\ inq = [v \in Ends |-> <<>>]
    /\ wire = [v \in Ends |-> <<>>]
    /\ stream = [v \in Ends |-> "none"]
    /\ remote = [v \in Ends |-> "none"]
    /\ connected = [v \in Ends |-> FALSE]
    /\ vconn = [v \in Ends |-> "none"]
    /\ cstatus = [v \in Ends |-> 0]
    /\ rxbuf = [v \in Ends |-> NULL]
    /\ txbuf = [v \in Ends |-> NULL]
    /\ last = [v \in Ends |-> NoCall]
    /\ rhist = [v \in Ends |-> <<"none", "none">>]
    /\ got = [v \in Ends |-> <<>>]
    /\ nbuf = [tx |-> 0, rx |-> 0]
    /\ frees = [i \in BufIds |-> 0]
    /\ fate = [i \in BufIds |-> "none"]
    /\ ninj = 0
    /\ carried = {}
    /\ ub = FALSE

\* the address an endpoint's target names
PeerOf(v) == IF v = "A" THEN "B" ELSE "A"

(***************************************************************************)
(* vconn_udp_open -> stream_open_with_default_port -> udp_open,            *)
(* then stream_connect -> udp_connect, then vconn_udp_new.                 *)
(* Inputs: whether inet_parse_active, socket(), set_nonblocking() and      *)
(* connect() succeed.                                                      *)
(***************************************************************************)
udp_open_error(parseOk, sockOk, nbOk) ==
    IF ~parseOk THEN EAFNOSUPPORT
    ELSE IF ~sockOk THEN EMFILE
    ELSE IF ~nbOk THEN EBADF
    ELSE 0

\* (mutation: the errno of connect() becomes the stream's connect status)
udp_open_connect_status_errno(connOk) == IF connOk THEN 0 ELSE ECONNREFUSED

\* the connect_status udp_open hands to new_udp_stream: 0, also when
\* connect() failed
udp_open_connect_status(connOk) == 0

\* (mutation: udp_connect reports a connect in progress)
stream_connect_again(cs) == EAGAIN

\* stream_connect on a stream whose connect status is cs: a connected stream
\* yields 0, a connecting one what udp_connect returns, which is 0
stream_connect(cs) == IF cs = EAGAIN THEN 0 ELSE cs

\* (mutation: the set_nonblocking failure path forgets close(fd))
udp_open_fail_fd_leak(f, parseOk, sockOk) ==
    IF parseOk /\ sockOk THEN "open" ELSE f

\* the socket after udp_open returned early: a socket that was created (the
\* failure is set_nonblocking's) is closed
udp_open_fail_fd(f, parseOk, sockOk) ==
    IF parseOk /\ sockOk THEN "closed" ELSE f

\* (mutation: the socket is left in blocking mode)
open_nonblock_skip(nbOk) == FALSE

\* O_NONBLOCK of the socket when udp_open goes past set_nonblocking
open_nonblock(nbOk) == nbOk

vconn_udp_open(v, parseOk, sockOk, nbOk, connOk) ==
    LET error == udp_open_error(parseOk, sockOk, nbOk) IN
    /\ ~ub
    /\ vconn[v] = "none" /\ stream[v] = "none" /\ fd[v] = "none"
    /\ IF error # 0
       THEN \* udp_open returned early; set_nonblocking failure closes fd
            /\ fd' = [fd EXCEPT ![v] =
                         udp_open_fail_fd(@, parseOk, sockOk)]
            /\ fdCloses' = [fdCloses EXCEPT ![v] =
                         IF fd'[v] = "closed" THEN @ + 1 ELSE @]
            /\ UNCHANGED <<nonblock, kpeer, stream, remote, connected,
                           vconn, cstatus>>
       ELSE /\ fd' = [fd EXCEPT ![v] = "open"]
            /\ nonblock' = [nonblock EXCEPT ![v] = open_nonblock(nbOk)]
            /\ kpeer' = [kpeer EXCEPT ![v] =
                            IF connOk THEN PeerOf(v) ELSE "none"]
            \* new_udp_stream(name, fd, 0, &ss, ss_len, streamp)
            /\ stream' = [stream EXCEPT ![v] = "open"]
            /\ remote' = [remote EXCEPT ![v] = PeerOf(v)]
            \* s->connected = (connect_status == 0)
            /\ connected' = [connected EXCEPT ![v] =
                                (udp_open_connect_status(connOk) = 0)]
            \* vconn_udp_new(stream, error = udp_connect() = 0, ...)
            /\ vconn' = [vconn EXCEPT ![v] = "open"]
            /\ cstatus' = [cstatus EXCEPT ![v] =
                              stream_connect(udp_open_connect_status(connOk))]
            /\ UNCHANGED fdCloses
    /\ rxbuf' = [rxbuf EXCEPT ![v] = NULL]
    /\ txbuf' = [txbuf EXCEPT ![v] = NULL]
    /\ last' = [last EXCEPT ![v] = Call("open", error, NULL, NoDgram, 0, 0, 0)]
    /\ UNCHANGED <<inq, wire, rhist, got, heapVars, ninj, carried, ub>>

(***************************************************************************)
(* vconn_udp_connect -> stream_connect -> udp_connect                      *)
(***************************************************************************)
\* (mutation: connect flips the flag)
udp_connect_toggles(c) == ~c

\* s->connected after udp_connect
udp_connect_marks(c) == TRUE

vconn_udp_connect(v) ==
    /\ ~ub
    /\ vconn[v] = "open"
    /\ connected' = [connected EXCEPT ![v] = udp_connect_marks(@)]
    /\ last' = [last EXCEPT ![v] =
           Call("connect", stream_connect(IF connected[v] THEN 0 ELSE EAGAIN),
                NULL, NoDgram, 0, 0, 0)]
    /\ UNCHANGED <<sockVars, inq, wire, stream, remote, vconn, cstatus, rxbuf,
                   txbuf, rhist, got, heapVars, ninj, carried, ub>>

\* (mutation: the buffer is never released)
ofpbuf_delete_leak(fr, b) == fr

\* ofpbuf_delete(b): frees b unless b is NULL
ofpbuf_delete(fr, b) == IF b.id = 0 THEN fr ELSE [fr EXCEPT ![b.id] = @ + 1]

\* (mutation: close flushes the queued message first)
close_wire_flush(w, tx, dst) ==
    IF tx.id = 0 THEN w
    ELSE Append(w, [id |-> tx.id, dst |-> dst, data |-> Contents(tx),
                    of |-> Contents(tx)])

\* what vconn_udp_close hands to the network: nothing, there is no
\* stream_send in it
close_wire(w, tx, dst) == w

\* (mutation: the queued message is not released)
close_buffers_rx(fr, rx, tx) == ofpbuf_delete(fr, rx)

\* the two ofpbuf_delete calls of vconn_udp_close
close_buffers(fr, rx, tx) == ofpbuf_delete(ofpbuf_delete(fr, rx), tx)

(***************************************************************************)
(* vconn_udp_close -> stream_close -> udp_close, then the two              *)
(* ofpbuf_delete calls and free(udp).  The freed struct keeps its stale    *)
(* rxbuf/txbuf pointers.                                                   *)
(***************************************************************************)
vconn_udp_close(v) ==
    /\ ~ub
    /\ vconn[v] = "open"
    \* udp_close: close(s->fd); free(s)
    /\ fd' = [fd EXCEPT ![v] = "closed"]
    /\ fdCloses' = [fdCloses EXCEPT ![v] = @ + 1]
    /\ stream' = [stream EXCEPT ![v] = "freed"]
    /\ frees' = close_buffers(frees, rxbuf[v], txbuf[v])
    /\ fate' = IF txbuf[v].id = 0 THEN fate
               ELSE [fate EXCEPT ![txbuf[v].id] = "closed"]
    /\ vconn' = [vconn EXCEPT ![v] = "freed"]
    /\ last' = [last EXCEPT ![v] = Call("close", 0, NULL, NoDgram, 0, 0, 0)]
    /\ wire' = [wire EXCEPT ![v] = close_wire(@, txbuf[v], remote[v])]
    /\ UNCHANGED <<nonblock, kpeer, inq, remote, connected, cstatus,
                   rxbuf, txbuf, rhist, got, nbuf, ninj, carried, ub>>

(***************************************************************************)
(* The datagram socket.  A socket call's outcome is the pair               *)
(* <<retval, errno>> the kernel produces.                                  *)
(***************************************************************************)
Outcome(retval, errno) == [retval |-> retval, errno |-> errno]
HardErrnos == {ECONNREFUSED}

\* sendto(fd, buffer, n, ...): all of n ("full"), would block ("block"), a
\* hard error ("error") or, anomalous for a datagram, fewer than n bytes
\* ("partial"); kinds are the outcomes the socket is let to produce
SendKinds == {"full", "block", "error", "partial"}
SendtoOutcomes(n, kinds) ==
    (IF "full" \in kinds THEN {Outcome(n, 0)} ELSE {})
    \cup (IF "block" \in kinds THEN {Outcome(-1, EAGAIN)} ELSE {})
    \cup (IF "error" \in kinds THEN {Outcome(-1, e) : e \in HardErrnos}
          ELSE {})
    \cup (IF "partial" \in kinds
          THEN {Outcome(k, 0) : k \in {j \in {n - 1} : j >= 0}} ELSE {})

\* recvfrom(fd, buffer, n, ...): the head datagram cut to n bytes, would
\* block when the queue is empty and, on a socket that faults, a hard error
RecvfromOutcomes(q, n, faults) ==
    (IF q = <<>> THEN {Outcome(-1, EAGAIN)}
     ELSE {Outcome(Min(n, Head(q).data.size), 0)})
    \cup (IF faults THEN {Outcome(-1, e) : e \in HardErrnos} ELSE {})

\* the socket call on v returns at once with outcome o: would-block is the
\* answer of a socket in non-blocking mode only (a blocking one waits)
SockReturns(v, o) == (o.retval < 0 /\ o.errno = EAGAIN) => nonblock[v]

\* (mutation: the datagram read stays in the queue)
recvfrom_queue_peek(q, read) == q

\* the socket's receive queue after recvfrom (flags 0) on queue q: a call
\* that read a datagram took the head
recvfrom_queue(q, read) == IF read THEN Tail(q) ELSE q

\* udp_send: the value it returns for the outcome of sendto
udp_send(o) ==
    IF o.retval < 0
    THEN IF o.errno = EAGAIN \/ o.errno = EWOULDBLOCK THEN -EAGAIN
         ELSE -o.errno
    ELSE o.retval

\* (mutation: nothing to read is reported as 0 bytes, as end of stream)
udp_recv_eof(o) ==
    IF o.retval < 0
    THEN IF o.errno = EAGAIN \/ o.errno = EWOULDBLOCK THEN 0
         ELSE -o.errno
    ELSE IF o.retval = 0 THEN -EAGAIN
    ELSE o.retval

\* (mutation: a zero-length datagram is returned as 0 bytes)
udp_recv_zero(o) ==
    IF o.retval < 0
    THEN IF o.errno = EAGAIN \/ o.errno = EWOULDBLOCK THEN -EAGAIN
         ELSE -o.errno
    ELSE o.retval

\* (mutation: every failure of recvfrom is reported as would-block)
udp_recv_masks(o) ==
    IF o.retval < 0 THEN -EAGAIN
    ELSE IF o.retval = 0 THEN -EAGAIN
    ELSE o.retval

\* udp_recv: the value it returns for the outcome of recvfrom
udp_recv(o) ==
    IF o.retval < 0
    THEN IF o.errno = EAGAIN \/ o.errno = EWOULDBLOCK THEN -EAGAIN
         ELSE -o.errno
    ELSE IF o.retval = 0 THEN -EAGAIN
    ELSE o.retval

\* (mutation: a hard error closes the socket)
io_fd_close(f, error) ==
    IF error < 0 /\ error # -EAGAIN THEN "closed" ELSE f

\* s->fd after udp_recv or udp_send returned error: neither closes it
io_fd(f, error) == f

\* the datagram a sendto of the first k bytes of buffer b puts on the wire
WireDgram(v, b, k) == [id |-> b.id, dst |-> remote[v],
                       data |-> Take(b.mem, k), of |-> Contents(b)]

\* what a recv found on the socket
RecvKind(o, d) ==
    IF o.retval < 0 THEN (IF o.errno = EAGAIN THEN "wouldblock" ELSE "error")
    ELSE IF o.retval = 0 THEN "empty"
    ELSE IF o.retval < OFP_HEADER_LEN THEN "short"
    ELSE IF ntohs_length(d.data) > o.retval THEN "trunc"
    ELSE IF ntohs_length(d.data) < o.retval THEN "over"
    ELSE "exact"

(***************************************************************************)
(* vconn_udp_recv, with stream_recv -> udp_recv -> recvfrom inlined.       *)
(* o is the outcome of recvfrom.                                           *)
(***************************************************************************)
\* value vconn_udp_recv returns when stream_recv returned error <= 0
recv_error_return(error) ==
    IF error = -EAGAIN THEN EAGAIN
    ELSE IF error # 0 THEN -error ELSE EOF

\* (mutation: a message is never cut below the header size)
recv_size_header(msg_len, rx_len) ==
    IF msg_len < rx_len THEN Max(msg_len, OFP_HEADER_LEN) ELSE rx_len

\* (mutation: the trailing bytes are kept)
recv_size_keep(msg_len, rx_len) == rx_len

\* the size vconn_udp_recv leaves in rx for rx_len received bytes whose
\* header declares msg_len
recv_size(msg_len, rx_len) == IF msg_len < rx_len THEN msg_len ELSE rx_len

\* (mutation: a truncated datagram passes the validation)
recv_check_partial(rx_len, msg_len) ==
    IF rx_len < OFP_HEADER_LEN THEN EAGAIN ELSE 0

\* (mutation: a datagram of exactly the declared length is refused)
recv_check_strict(rx_len, msg_len) ==
    IF rx_len < OFP_HEADER_LEN THEN EAGAIN
    ELSE IF msg_len >= rx_len THEN EAGAIN
    ELSE 0

\* (mutation: the header-size test is missing)
recv_check_nohdr(rx_len, msg_len) ==
    IF msg_len > rx_len THEN EAGAIN ELSE 0

\* the header validation of vconn_udp_recv: EAGAIN when the rx_len received
\* bytes are no whole header or the header declares more than rx_len bytes
recv_check(rx_len, msg_len) ==
    IF rx_len < OFP_HEADER_LEN THEN EAGAIN
    ELSE IF msg_len > rx_len THEN EAGAIN
    ELSE 0

\* (mutation: the slot keeps pointing at the buffer handed to the caller)
recv_slot_keep(rx) == rx

\* udp->rxbuf after vconn_udp_recv stored rx through *msgp
recv_slot(rx) == NULL

\* (mutation: a receive buffer is allocated on every call)
recv_allocates_always(rx) == TRUE

\* vconn_udp_recv allocates a receive buffer when udp->rxbuf is NULL
recv_allocates(rx) == rx.id = 0

vconn_udp_recv(v, o) ==
    LET alloc == recv_allocates(rxbuf[v])
        rx0 == IF alloc THEN ofpbuf_new(RxBase + nbuf.rx + 1) ELSE rxbuf[v]
        rx1 == ofpbuf_clear(rx0)
        isData == o.retval >= 0
        d == IF isData THEN Head(inq[v]) ELSE NoDgram
        error == udp_recv(o)
        \* recvfrom copied o.retval bytes of the datagram into rx->data
        rx2 == IF isData
               THEN [rx1 EXCEPT !.mem = Store(@, d.data, o.retval)]
               ELSE rx1
        rx_len == error
        rx3 == [rx2 EXCEPT !.size = rx_len]
        msg_len == ntohs_length(rx3.mem)
        rx4 == [rx3 EXCEPT !.size = recv_size(msg_len, rx_len)]
        kind == RecvKind(o, d)
    IN
    /\ ~ub
    /\ vconn[v] = "open"
    /\ o \in RecvfromOutcomes(inq[v], ofpbuf_tailroom(rx1), TRUE)
    /\ SockReturns(v, o)
    /\ nbuf' = IF alloc THEN [nbuf EXCEPT !.rx = @ + 1] ELSE nbuf
    \* recvfrom consumes the datagram and stores its source in s->remote
    /\ inq' = [inq EXCEPT ![v] = recvfrom_queue(@, isData)]
    /\ remote' = [remote EXCEPT ![v] = IF isData THEN d.src ELSE @]
    /\ rhist' = [rhist EXCEPT ![v] = <<@[2], kind>>]
    /\ IF error <= 0
       THEN /\ rxbuf' = [rxbuf EXCEPT ![v] = rx1]
            /\ last' = [last EXCEPT ![v] =
                   IoCall(Call("recv", recv_error_return(error), NULL, d,
                               0, 1, error), o)]
            /\ UNCHANGED got
       ELSE IF recv_check(rx_len, msg_len) # 0
       THEN \* too short or truncated: rx stays in udp->rxbuf
            /\ rxbuf' = [rxbuf EXCEPT ![v] = rx3]
            /\ last' = [last EXCEPT ![v] =
                   IoCall(Call("recv", recv_check(rx_len, msg_len), NULL, d,
                               0, 1, error), o)]
            /\ UNCHANGED got
       ELSE \* *msgp = rx; udp->rxbuf = NULL
            /\ rxbuf' = [rxbuf EXCEPT ![v] = recv_slot(rx4)]
            /\ last' = [last EXCEPT ![v] =
                   IoCall(Call("recv", 0, rx4, d, 0, 1, error), o)]
            /\ got' = [got EXCEPT ![v] = Append(@, rx4)]
    /\ fd' = [fd EXCEPT ![v] = io_fd(@, error)]
    /\ UNCHANGED <<fdCloses, nonblock, kpeer>>
    /\ UNCHANGED <<wire, stream, connected, vconn, cstatus, txbuf,
                   frees, fate, ninj, carried, ub>>

(***************************************************************************)
(* vconn_udp_send, with stream_send -> udp_send -> sendto inlined.         *)
(* m is the byte string of the message the caller hands over (in a fresh   *)
(* ofpbuf), o the outcome of sendto.                                       *)
(***************************************************************************)
\* (mutation: the size check is missing)
too_large_never(msg_len) == FALSE

\* (mutation: the limit itself is refused)
too_large_ge(msg_len) == msg_len >= MAX_OPENFLOW_MSG_SIZE

\* the size check of vconn_udp_send
too_large(msg_len) == msg_len > MAX_OPENFLOW_MSG_SIZE

\* value vconn_udp_send returns when stream_send returned error
send_result(error, msg_len) ==
    IF error = msg_len THEN 0
    ELSE IF error >= 0 THEN EAGAIN
    ELSE IF error = -EAGAIN THEN 0
    ELSE -error

\* (mutation: a send that would block is tried a second time)
send_attempts_retry(error) == IF error = -EAGAIN THEN 2 ELSE 1

\* the calls of stream_send one vconn_udp_send makes for a message within
\* the limit: the one at the top of the function, whatever it returns
send_attempts(error) == 1

\* (mutation: a message already queued keeps the slot)
queue_slot_keep(old, msg) == IF old.id # 0 THEN old ELSE msg

\* udp->txbuf after a would-block send of msg found old in the slot
queue_slot(old, msg) == msg

vconn_udp_send(v, m, o) ==
    LET msg == MsgBuf(nbuf.tx + 1, m)
        msg_len == msg.size
        error == udp_send(o)
    IN
    /\ ~ub
    /\ vconn[v] = "open"
    /\ nbuf' = [nbuf EXCEPT !.tx = @ + 1]
    /\ IF too_large(msg_len)
       THEN /\ o = Outcome(0, 0)
            /\ frees' = ofpbuf_delete(frees, msg)
            /\ fate' = [fate EXCEPT ![msg.id] = "toolarge"]
            /\ last' = [last EXCEPT ![v] =
                   Call("send", EMSGSIZE, msg, NoDgram, 0, 0, 0)]
            /\ UNCHANGED <<wire, txbuf>>
       ELSE /\ o \in SendtoOutcomes(msg_len, SendKinds)
            /\ SockReturns(v, o)
            /\ wire' = [wire EXCEPT ![v] =
                   IF o.retval >= 0
                   THEN Append(@, WireDgram(v, msg, o.retval)) ELSE @]
            /\ IF error = msg_len
               THEN /\ frees' = ofpbuf_delete(frees, msg)
                    /\ fate' = [fate EXCEPT ![msg.id] = "sent"]
                    /\ last' = [last EXCEPT ![v] =
                           IoCall(Call("send", send_result(error, msg_len),
                                       msg, NoDgram, send_attempts(error),
                                       0, error), o)]
                    /\ UNCHANGED txbuf
               ELSE IF error >= 0
               THEN /\ frees' = ofpbuf_delete(frees, msg)
                    /\ fate' = [fate EXCEPT ![msg.id] = "partial"]
                    /\ last' = [last EXCEPT ![v] =
                           IoCall(Call("send", send_result(error, msg_len),
                                       msg, NoDgram, send_attempts(error),
                                       0, error), o)]
                    /\ UNCHANGED txbuf
               ELSE IF error = -EAGAIN
               THEN /\ frees' = ofpbuf_delete(frees, txbuf[v])
                    /\ fate' = [i \in BufIds |->
                           IF i = msg.id THEN "queued"
                           ELSE IF i = txbuf[v].id THEN "replaced"
                           ELSE fate[i]]
                    /\ txbuf' = [txbuf EXCEPT ![v] = queue_slot(@, msg)]
                    /\ last' = [last EXCEPT ![v] =
                           IoCall(Call("send", send_result(error, msg_len),
                                       msg, NoDgram, send_attempts(error),
                                       0, error), o)]
               ELSE /\ frees' = ofpbuf_delete(frees, msg)
                    /\ fate' = [fate EXCEPT ![msg.id] = "error"]
                    /\ last' = [last EXCEPT ![v] =
                           IoCall(Call("send", send_result(error, msg_len),
                                       msg, NoDgram, send_attempts(error),
                                       0, error), o)]
                    /\ UNCHANGED txbuf
    /\ fd' = [fd EXCEPT ![v] = io_fd(@, error)]
    /\ UNCHANGED <<fdCloses, nonblock, kpeer>>
    /\ UNCHANGED <<inq, streamVars, vconn, cstatus, rxbuf, rhist, got, ninj,
                   carried, ub>>

(***************************************************************************)
(* vconn_udp_run: stream_run -> udp_run does nothing; then the flush of    *)
(* txbuf.  o is the outcome of sendto (no call when txbuf is NULL).        *)
(***************************************************************************)
\* (mutation: a flushed message stays in the slot)
run_slot_stuck(tx, error) ==
    IF error < 0 /\ error # -EAGAIN THEN NULL ELSE tx

\* (mutation: a flush that would block gives the message up)
run_slot_giveup(tx, error) ==
    IF error = tx.size THEN NULL
    ELSE IF error >= 0 THEN tx
    ELSE NULL

\* udp->txbuf after vconn_udp_run got error from stream_send for the queued
\* message tx
run_slot(tx, error) ==
    IF error = tx.size THEN NULL
    ELSE IF error >= 0 THEN tx
    ELSE IF error # -EAGAIN THEN NULL
    ELSE tx

\* (mutation: run flushes whatever the slot holds)
run_flushes_always(tx) == TRUE

\* vconn_udp_run attempts a flush when udp->txbuf is not NULL
run_flushes(tx) == tx.id # 0

vconn_udp_run(v, o) ==
    LET msg_len == txbuf[v].size
        error == udp_send(o)
    IN
    /\ ~ub
    /\ vconn[v] = "open"
    /\ IF ~run_flushes(txbuf[v])
       THEN /\ o = Outcome(0, 0)
            /\ last' = [last EXCEPT ![v] =
                   Call("run", 0, NULL, NoDgram, 0, 0, 0)]
            /\ UNCHANGED <<wire, txbuf, frees, fate>>
       ELSE /\ o \in SendtoOutcomes(msg_len, SendKinds)
            /\ SockReturns(v, o)
            /\ wire' = [wire EXCEPT ![v] =
                   IF o.retval >= 0
                   THEN Append(@, WireDgram(v, txbuf[v], o.retval)) ELSE @]
            /\ last' = [last EXCEPT ![v] =
                   IoCall(Call("run", 0, txbuf[v], NoDgram, 1, 0, error), o)]
            /\ txbuf' = [txbuf EXCEPT ![v] = run_slot(@, error)]
            /\ IF error = msg_len
               THEN /\ frees' = ofpbuf_delete(frees, txbuf[v])
                    /\ fate' = [fate EXCEPT ![txbuf[v].id] = "flushed"]
               ELSE IF error >= 0
               THEN UNCHANGED <<frees, fate>>
               ELSE IF error # -EAGAIN
               THEN /\ frees' = ofpbuf_delete(frees, txbuf[v])
                    /\ fate' = [fate EXCEPT ![txbuf[v].id] = "flusherror"]
               ELSE UNCHANGED <<frees, fate>>
    /\ fd' = [fd EXCEPT ![v] = io_fd(@, error)]
    /\ UNCHANGED <<fdCloses, nonblock, kpeer>>
    /\ UNCHANGED <<inq, streamVars, vconn, cstatus, rxbuf, rhist, got, nbuf,
                   ninj, carried, ub>>

(***************************************************************************)
(* vconn_udp_wait -> stream_*_wait -> udp_wait                             *)
(***************************************************************************)
\* udp_wait: the events it registers for interest w; STREAM_CONNECT breaks
\* out of the switch without a call
udp_wait(w) == IF w = "RECV" THEN {"POLLIN"}
               ELSE IF w = "SEND" THEN {"POLLOUT"}
               ELSE {}

\* (mutation: WAIT_SEND reaches the stream whatever the slot holds)
wait_interest_always(w, tx) == udp_wait(w)

\* vconn_udp_wait: what it registers for interest w with tx in the transmit
\* slot; WAIT_SEND reaches the stream only when tx is not NULL
wait_interest(w, tx) == IF w = "SEND" /\ tx.id = 0 THEN {} ELSE udp_wait(w)

vconn_udp_wait(v, w) ==
    /\ ~ub
    /\ vconn[v] = "open"
    /\ w \in {"CONNECT", "RECV", "SEND"}
    /\ last' = [last EXCEPT ![v] =
           [Call("wait", 0, NULL, NoDgram, 0, 0, 0) EXCEPT
               !.reg = wait_interest(w, txbuf[v]), !.want = w]]
    /\ UNCHANGED <<sockVars, inq, wire, streamVars, vconn, cstatus, rxbuf,
                   txbuf, rhist, got, heapVars, ninj, carried, ub>>

(***************************************************************************)
(* A call on a vconn_udp that vconn_udp_close already freed.  Every        *)
(* operation starts by reading the freed struct (vconn_udp_cast), which is *)
(* undefined: the call may crash, or run on the stale contents - a second  *)
(* close then closes the handle and frees the buffers again, the other     *)
(* operations use the closed handle.                                       *)
(***************************************************************************)
use_after_close(v, op, crash, ret) ==
    /\ ~ub
    /\ vconn[v] = "freed"
    /\ op \in {"recv", "send", "run", "wait", "connect", "close"}
    /\ ret \in (IF crash \/ op \in {"run", "wait", "close"} THEN {0}
                ELSE {0, EAGAIN, EBADF})
    /\ ub' = TRUE
    /\ last' = [last EXCEPT ![v] =
           Call(IF crash THEN "crash" ELSE op, ret, NULL, NoDgram, 0, 0, 0)]
    /\ IF op = "close" /\ ~crash
       THEN /\ fdCloses' = [fdCloses EXCEPT ![v] = @ + 1]
            /\ frees' = close_buffers(frees, rxbuf[v], txbuf[v])
       ELSE UNCHANGED <<fdCloses, frees>>
    /\ UNCHANGED <<fd, nonblock, kpeer, inq, wire, streamVars, vconn, cstatus,
                   rxbuf, txbuf, rhist, got, nbuf, fate, ninj, carried>>

(***************************************************************************)
(* The network: a datagram arrives in the socket's receive queue.  A       *)
(* socket whose connect() succeeded only accepts its peer's datagrams; one *)
(* whose connect() failed has no local port (udp_open never binds) until   *)
(* its first sendto, and from then on accepts datagrams from anybody.      *)
(***************************************************************************)
\* sendto was called on the socket of the endpoint
SentOnce == \E i \in BufIds : fate[i] \notin {"none", "toolarge"}

Sources(v) == IF kpeer[v] # "none" THEN {kpeer[v]}
              ELSE IF SentOnce THEN Addrs \ {v} ELSE {}

arrive(v, d) ==
    /\ ~ub
    /\ fd[v] = "open"
    /\ d.src \in Sources(v)
    /\ inq' = [inq EXCEPT ![v] = Append(@, d)]
    /\ UNCHANGED <<sockVars, wire, streamVars, vconn, cstatus, rxbuf, txbuf,
                   last, rhist, got, heapVars, ub>>

(***************************************************************************)
(* Messages and datagrams the model draws its inputs from                  *)
(***************************************************************************)
\* struct ofp_header: version, type, length (big-endian), xid
Hdr(type, len, xid) == <<4, type, len \div 256, len % 256, 0, 0, 0, xid>>

MsgHello1 == Bytes(Hdr(0, 8, 1))
MsgHello2 == Bytes(Hdr(0, 8, 2))
MsgEcho == Bytes(Hdr(2, 12, 3) \o <<7, 7, 7, 7>>)
MsgMax == Padded(Hdr(2, 65535, 4), 65535)
MsgTooLarge == Padded(Hdr(2, 0, 5), 65536)
MsgShort == Bytes(<<4, 0, 0, 7, 0, 0, 9>>)
MsgStub == Bytes(<<4, 0>>)
MsgTrunc == Bytes(Hdr(2, 12, 6))
MsgOver == Bytes(Hdr(0, 8, 7) \o <<9, 9>>)
MsgOverTiny == Bytes(Hdr(0, 4, 8) \o <<9, 9>>)
MsgEmpty == NoBytes

\* inputs of Spec, of the receive side and of the send side
LifeMsgs == {MsgHello1}
LifeCrafted == {MsgHello1, MsgShort}
SendMsgs == {MsgHello1, MsgHello2, MsgMax, MsgTooLarge}
PairMsgs == {MsgHello1, MsgEcho, MsgMax, MsgOver}
Crafted == {MsgHello1, MsgEcho, MsgMax, MsgShort, MsgStub, MsgTrunc, MsgOver,
            MsgOverTiny, MsgEmpty}

(***************************************************************************)
(* The calls of the caller of endpoint v, with inputs from the given sets  *)
(***************************************************************************)
WireRoom(v, o, maxWire) == o.retval >= 0 => Len(wire[v]) < maxWire

CallOpen(v) == \E parseOk, sockOk, nbOk, connOk \in BOOLEAN :
                   vconn_udp_open(v, parseOk, sockOk, nbOk, connOk)

CallRecv(v, maxRx, faults) ==
    /\ rxbuf[v].id # 0 \/ nbuf.rx < maxRx
    /\ \E o \in RecvfromOutcomes(inq[v], MAX_OPENFLOW_MSG_SIZE, faults) :
           vconn_udp_recv(v, o)

CallSend(v, msgs, maxTx, maxWire, kinds) ==
    /\ nbuf.tx < maxTx
    /\ \E m \in msgs :
       \E o \in SendtoOutcomes(m.size, kinds) \cup {Outcome(0, 0)} :
           WireRoom(v, o, maxWire) /\ vconn_udp_send(v, m, o)

CallRun(v, maxWire, kinds) ==
    \E o \in SendtoOutcomes(txbuf[v].size, kinds) \cup {Outcome(0, 0)} :
        WireRoom(v, o, maxWire) /\ vconn_udp_run(v, o)

CallWait(v) == \E w \in {"CONNECT", "RECV", "SEND"} : vconn_udp_wait(v, w)

CallAfterClose(v) ==
    \E op \in {"recv", "send", "run", "wait", "connect", "close"} :
    \E crash \in BOOLEAN : \E ret \in {0, EAGAIN, EBADF} :
        use_after_close(v, op, crash, ret)

\* the network hands the socket a datagram somebody crafted
NetArrive(v, crafted, maxInject) ==
    /\ ninj < maxInject
    /\ ninj' = ninj + 1
    /\ \E m \in crafted : \E a \in Addrs :
           arrive(v, [src |-> a, data |-> m, of |-> NoMsg])
    /\ UNCHANGED carried

\* the network carries the i-th datagram a sent to the socket of b
NetCarry(a, b, i) ==
    /\ i \in 1..Len(wire[a])
    /\ <<a, i>> \notin carried
    /\ wire[a][i].dst = b
    /\ carried' = carried \cup {<<a, i>>}
    /\ arrive(b, [src |-> a, data |-> wire[a][i].data, of |-> wire[a][i].of])
    /\ UNCHANGED ninj

(***************************************************************************)
(* Spec: endpoint Sw, driven by its caller through every operation,        *)
(* against an arbitrary network                                            *)
(***************************************************************************)
Sw == "A"
Ctl == "B"

Open == CallOpen(Sw)
Connect == vconn_udp_connect(Sw)
Recv == CallRecv(Sw, MaxLifeRxBufs, TRUE)
Send == CallSend(Sw, LifeMsgs, MaxLifeSends, MaxLifeWire, SendKinds)
Run == CallRun(Sw, MaxLifeWire, SendKinds)
Wait == CallWait(Sw)
Close == vconn_udp_close(Sw)
UseAfterClose == CallAfterClose(Sw)
Arrive == NetArrive(Sw, LifeCrafted, MaxLifeInject)

Next == \/ Open \/ Connect \/ Recv \/ Send \/ Run \/ Wait \/ Close
        \/ UseAfterClose \/ Arrive

Spec == Init /\ [][Next]_vars

(***************************************************************************)
(* SpecRecv: the receive side of an opened endpoint against every crafted  *)
(* datagram                                                                *)
(***************************************************************************)
ROpen == vconn_udp_open(Sw, TRUE, TRUE, TRUE, TRUE)
RRecv == CallRecv(Sw, MaxRxBufs, TRUE)
RArrive == NetArrive(Sw, Crafted, MaxInject)
RClose == vconn_udp_close(Sw)

NextRecv == ROpen \/ RRecv \/ RArrive \/ RClose

SpecRecv == Init /\ [][NextRecv]_vars

(***************************************************************************)
(* SpecSend: the send side of an opened endpoint                           *)
(***************************************************************************)
SOpen == vconn_udp_open(Sw, TRUE, TRUE, TRUE, TRUE)
SSend == CallSend(Sw, SendMsgs, MaxSends, MaxWire, SendKinds)
SRun == CallRun(Sw, MaxWire, SendKinds)
SClose == vconn_udp_close(Sw)

NextSend == SOpen \/ SSend \/ SRun \/ SClose

SpecSend == Init /\ [][NextSend]_vars

(***************************************************************************)
(* SpecPair: Sw sends to Ctl through a socket with room in its send        *)
(* buffer, over a network that may reorder and lose datagrams; Ctl         *)
(* receives what has arrived                                               *)
(***************************************************************************)
POpenSw == vconn_udp_open(Sw, TRUE, TRUE, TRUE, TRUE)
POpenCtl == vconn_udp_open(Ctl, TRUE, TRUE, TRUE, TRUE)
PSend == CallSend(Sw, PairMsgs, MaxPairSends, MaxPairWire, {"full"})
PCarry == \E i \in 1..MaxPairWire : NetCarry(Sw, Ctl, i)
PRecv == inq[Ctl] # <<>> /\ CallRecv(Ctl, MaxPairRxBufs, FALSE)

NextPair == POpenSw \/ POpenCtl \/ PSend \/ PCarry \/ PRecv

SpecPair == Init /\ [][NextPair]_vars

(***************************************************************************)
(* SpecIO: the sends, flushes and receives of an opened endpoint           *)
(* interleaved, with oversized messages and discarded datagrams            *)
(***************************************************************************)
IoMsgs == {MsgHello1, MsgTooLarge}
IoCrafted == {MsgHello1, MsgShort}

IOpen == vconn_udp_open(Sw, TRUE, TRUE, TRUE, TRUE)
ISend == CallSend(Sw, IoMsgs, MaxIoSends, MaxLifeWire, SendKinds)
IRun == CallRun(Sw, MaxLifeWire, SendKinds)
IRecv == CallRecv(Sw, MaxLifeRxBufs, FALSE)
IArrive == NetArrive(Sw, IoCrafted, MaxLifeInject)

NextIO == IOpen \/ ISend \/ IRun \/ IRecv \/ IArrive

SpecIO == Init /\ [][NextIO]_vars

(***************************************************************************)
(* SpecFlush: the caller sends and then keeps calling run, on a stream     *)
(* that takes part of a message (a bounded number of times) or would block *)
(* for a while and then accepts.                                           *)
(* Fairness: run is invoked again and again, and a stream asked again and  *)
(* again to take the queued message eventually takes it whole.             *)
(***************************************************************************)
FlushMsgs == {MsgHello1, MsgEcho}
FlushWire == MaxFlushSends + MaxFlushPartial
\* the partial writes the stream made so far
Partials(v) == Cardinality({k \in 1..Len(wire[v]) :
                               wire[v][k].data.size < wire[v][k].of.size})
FlushKinds(v) == IF Partials(v) < MaxFlushPartial
                 THEN {"block", "partial"} ELSE {"block"}

FOpen == vconn_udp_open(Sw, TRUE, TRUE, TRUE, TRUE)
FSend == CallSend(Sw, FlushMsgs, MaxFlushSends, FlushWire,
                  FlushKinds(Sw) \cup {"full"})
FRunRetry == CallRun(Sw, FlushWire, FlushKinds(Sw))
FRunAccept == CallRun(Sw, FlushWire, {"full"})
FRun == FRunRetry \/ FRunAccept

NextFlush == FOpen \/ FSend \/ FRunRetry \/ FRunAccept

SpecFlush == /\ Init /\ [][NextFlush]_vars
             /\ WF_vars(FRun)
             /\ SF_vars(FRunAccept /\ txbuf[Sw].id # 0)

(***************************************************************************)
(* Properties                                                              *)
(***************************************************************************)
\* the length a header declares: bytes 2..3 of the message, network order
Declared(m) == ByteAt(m, 3) * 256 + ByteAt(m, 4)
\* a message that is at least a header and declares its own length
WellFormedMsg(m) == m.size >= OFP_HEADER_LEN /\ Declared(m) = m.size
\* the last call on v was a recv that took a datagram from the socket
RecvRead(v) == last[v].op = "recv" /\ last[v].read # NoDgram
\* the endpoint is open down to its socket handle
StillOpen(v) == vconn[v] = "open" /\ stream[v] = "open" /\ fd[v] = "open"

\* C1 (as amended): for every well-formed message B (at least a header long,
\* its header declaring len(B)) with len(B) <= 65535 that the socket of Sw
\* accepted whole, the recv on Ctl that reads the resulting datagram returns
\* success with exactly B: same length, same bytes.
C1_RoundTrip ==
    LET c == last[Ctl] IN
    (/\ RecvRead(Ctl)
     /\ c.read.of # NoMsg
     /\ c.read.of.size <= MAX_OPENFLOW_MSG_SIZE
     /\ c.read.data.size = c.read.of.size
     /\ WellFormedMsg(c.read.of))
    => /\ c.ret = 0
       /\ c.msg.size = c.read.of.size
       /\ Contents(c.msg) = c.read.of

\* C1 as stated: the same for every byte sequence B with len(B) <= 65535
C1_AnyBytes ==
    LET c == last[Ctl] IN
    (/\ RecvRead(Ctl)
     /\ c.read.of # NoMsg
     /\ c.read.of.size <= MAX_OPENFLOW_MSG_SIZE
     /\ c.read.data.size = c.read.of.size)
    => /\ c.ret = 0
       /\ c.msg.size = c.read.of.size
       /\ Contents(c.msg) = c.read.of

\* a 65535-byte message sent by Sw came out of recv on Ctl
C1_Witness ==
    /\ RecvRead(Ctl)
    /\ last[Ctl].read.of = MsgMax
    /\ last[Ctl].ret = 0
    /\ Contents(last[Ctl].msg) = MsgMax

\* C2: a recv that reads a datagram of at least header size whose header
\* declares more bytes than were received returns EAGAIN, stores no buffer
\* through msgp and leaves the vconn, its stream and the socket open; and the
\* recv that follows such a discard, when it reads a well-formed datagram,
\* returns that datagram.
C2_TruncatedDiscard ==
    LET c == last[Sw] IN
    /\ (/\ RecvRead(Sw)
        /\ c.read.data.size >= OFP_HEADER_LEN
        /\ Declared(c.read.data) > c.read.data.size)
       => /\ c.ret = EAGAIN
          /\ c.msg = NULL
          /\ \A k \in 1..Len(got[Sw]) : got[Sw][k].id # rxbuf[Sw].id
          /\ StillOpen(Sw)
    /\ (/\ RecvRead(Sw)
        /\ rhist[Sw][1] = "trunc"
        /\ WellFormedMsg(c.read.data))
       => /\ c.ret = 0
          /\ Contents(c.msg) = c.read.data
          /\ StillOpen(Sw)

\* a truncated datagram was discarded and the next recv returned a message
C2_Witness ==
    /\ RecvRead(Sw)
    /\ rhist[Sw] = <<"trunc", "exact">>
    /\ last[Sw].ret = 0
    /\ last[Sw].msg.size = last[Sw].read.data.size

\* C3: a recv that reads a datagram holding a header that declares L bytes,
\* L less than the received length, returns success with a message of
\* exactly L bytes, the first L bytes of the datagram.
C3_OverLength ==
    LET c == last[Sw]
        L == Declared(c.read.data)
    IN
    (/\ RecvRead(Sw)
     /\ c.read.data.size >= OFP_HEADER_LEN
     /\ L < c.read.data.size)
    => /\ c.ret = 0
       /\ c.msg.size = L
       /\ Contents(c.msg) = Take(c.read.data, L)

\* a 10-byte datagram declaring 8 bytes was returned as 8 bytes
C3_Witness ==
    /\ RecvRead(Sw)
    /\ last[Sw].read.data = MsgOver
    /\ last[Sw].ret = 0
    /\ last[Sw].msg.size = 8

\* the ids of the datagrams v handed to the network
WireIds(v) == {wire[v][k].id : k \in 1..Len(wire[v])}

\* the last call on v was a send that found the stream would block
SendBlocked(c) == c.op = "send" /\ c.nsend = 1 /\ c.sret = -EAGAIN

\* C4: when a send that found the stream would block directly follows
\* another such send, the message of the first is released and was never
\* handed to the network, and the message of the second occupies the slot.
\* In every state, a replaced message is released, is not in the slot and
\* never went out whole, and a run whose flush the stream accepts transmits
\* the message of the slot, whole, and empties the slot.
C4_LastWriteWins ==
    /\ [][(SendBlocked(last[Sw]) /\ SendBlocked(last'[Sw])
           /\ last'[Sw].msg.id # last[Sw].msg.id)
          => /\ fate'[last[Sw].msg.id] = "replaced"
             /\ frees'[last[Sw].msg.id] = 1
             /\ \A k \in 1..Len(wire'[Sw]) :
                    wire'[Sw][k].id # last[Sw].msg.id
             /\ last'[Sw].ret = 0
             /\ txbuf'[Sw] = last'[Sw].msg]_vars
    /\ [](\A i \in TxIds :
              fate[i] = "replaced"
              => /\ frees[i] = 1
                 /\ txbuf[Sw].id # i
                 /\ \A k \in 1..Len(wire[Sw]) :
                        wire[Sw][k].id = i
                        => wire[Sw][k].data.size < wire[Sw][k].of.size)
    /\ []((last[Sw].op = "run" /\ last[Sw].nsend = 1
           /\ last[Sw].sret = last[Sw].msg.size)
          => /\ wire[Sw] # <<>>
             /\ wire[Sw][Len(wire[Sw])].id = last[Sw].msg.id
             /\ wire[Sw][Len(wire[Sw])].data = Contents(last[Sw].msg)
             /\ fate[last[Sw].msg.id] = "flushed"
             /\ txbuf[Sw] = NULL)

\* m1 was queued, m2 replaced it before any run, and run transmitted m2
C4_Witness ==
    \E i \in TxIds :
        /\ i + 1 \in TxIds
        /\ fate[i] = "replaced"
        /\ fate[i + 1] = "flushed"
        /\ last[Sw].op = "run"
        /\ last[Sw].msg.id = i + 1
        /\ WireIds(Sw) = {i + 1}

\* C5: a send of a message longer than 65535 bytes returns EMSGSIZE without
\* a call of stream_send, and nothing of the message reaches the network; a
\* send of a message of exactly 65535 bytes does call stream_send.
C5_Oversized ==
    LET c == last[Sw] IN
    /\ (c.op = "send" /\ c.msg.size > MAX_OPENFLOW_MSG_SIZE)
       => /\ c.ret = EMSGSIZE
          /\ c.nsend = 0
          /\ c.msg.id \notin WireIds(Sw)
          /\ txbuf[Sw].id # c.msg.id
    /\ (c.op = "send" /\ c.msg.size = MAX_OPENFLOW_MSG_SIZE)
       => c.nsend = 1
    /\ \A i \in TxIds : fate[i] = "toolarge" => i \notin WireIds(Sw)

\* a 65536-byte message was refused after a 65535-byte one went out whole
C5_Witness ==
    /\ last[Sw].op = "send"
    /\ last[Sw].msg.size = MAX_OPENFLOW_MSG_SIZE + 1
    /\ last[Sw].ret = EMSGSIZE
    /\ \E k \in 1..Len(wire[Sw]) : wire[Sw][k].data = MsgMax

\* C6: once the vconn was closed (and not touched again), the socket handle
\* was closed exactly once, the stream is freed, the receive buffer and the
\* queued message the vconn held were each released once, and no buffer was
\* released twice.
C6_CloseOnce ==
    (vconn[Sw] = "freed" /\ ~ub)
    => /\ fdCloses[Sw] = 1
       /\ fd[Sw] = "closed"
       /\ stream[Sw] = "freed"
       /\ rxbuf[Sw].id # 0 => frees[rxbuf[Sw].id] = 1
       /\ txbuf[Sw].id # 0 => frees[txbuf[Sw].id] = 1
       /\ \A i \in BufIds : frees[i] <= 1

\* a vconn holding a receive buffer and a queued message was closed
C6_Witness ==
    /\ vconn[Sw] = "freed" /\ ~ub
    /\ last[Sw].op = "close"
    /\ rxbuf[Sw].id # 0 /\ frees[rxbuf[Sw].id] = 1
    /\ txbuf[Sw].id # 0 /\ frees[txbuf[Sw].id] = 1
    /\ fdCloses[Sw] = 1

\* C7 as stated: no call on a closed vconn has undefined behaviour, and none
\* closes the handle or releases a buffer again.
C7_DefinedAfterClose ==
    /\ ~ub
    /\ fdCloses[Sw] <= 1
    /\ \A i \in BufIds : frees[i] <= 1

\* the messages Sw transmitted are well-formed and pairwise distinct
DistinctWellFormed(w) ==
    \A k \in 1..Len(w) :
        /\ WellFormedMsg(w[k].of)
        /\ w[k].data = w[k].of
        /\ \A j \in 1..Len(w) : j # k => w[j].of # w[k].of

\* C8: when the messages Sw sent are well-formed and pairwise distinct, every
\* recv on Ctl that took a datagram returned one message (so the messages
\* returned and the datagrams still queued add up to the datagrams that
\* arrived), every returned message is one of the datagrams that arrived,
\* none is returned twice, and once as many are returned as were sent the
\* returned set is the sent set.
C8_NoMerging ==
    LET w == wire[Sw]
        g == got[Ctl]
        sent == {w[k].of : k \in 1..Len(w)}
        arrived == {w[p[2]].of : p \in carried}
        rcvd == {Contents(g[k]) : k \in 1..Len(g)}
    IN
    DistinctWellFormed(w)
    => /\ Len(g) + Len(inq[Ctl]) = Cardinality(carried)
       /\ rcvd \subseteq arrived
       /\ Cardinality(rcvd) = Len(g)
       /\ Len(g) = Len(w) => rcvd = sent
       /\ RecvRead(Ctl)
          => /\ last[Ctl].ret = 0
             /\ Contents(last[Ctl].msg) = last[Ctl].read.data

\* three distinct messages were sent, all arrived, and three recvs returned
\* them, the last sent first
C8_Witness ==
    /\ Len(wire[Sw]) = 3
    /\ DistinctWellFormed(wire[Sw])
    /\ Cardinality(carried) = 3
    /\ Len(got[Ctl]) = 3
    /\ Contents(got[Ctl][1]) = wire[Sw][3].of
    /\ {Contents(got[Ctl][k]) : k \in 1..3} = {MsgHello1, MsgEcho, MsgMax}

\* C9 as stated, granting the replacement of a queued message by a later
\* would-block send: while the vconn is open, every message handed to send
\* went out whole as one datagram, or is in the transmit slot, or was
\* replaced there, or was refused with an error the send returned.
C9_NoSilentDrop ==
    vconn[Sw] = "open"
    => \A i \in 1..nbuf.tx :
           \/ \E k \in 1..Len(wire[Sw]) :
                  /\ wire[Sw][k].id = i
                  /\ wire[Sw][k].data = wire[Sw][k].of
           \/ txbuf[Sw].id = i
           \/ fate[i] = "replaced"
           \/ fate[i] \in {"toolarge", "error"}

\* C10: a recv that reads a non-empty datagram of fewer than 8 bytes returns
\* EAGAIN, hands no buffer to the caller, and leaves the vconn, its stream
\* and the socket open and the receive buffer, unreleased, in the vconn.
C10_ShortRetry ==
    LET c == last[Sw] IN
    (/\ RecvRead(Sw)
     /\ c.read.data.size > 0
     /\ c.read.data.size < OFP_HEADER_LEN)
    => /\ c.ret = EAGAIN
       /\ c.msg = NULL
       /\ StillOpen(Sw)
       /\ rxbuf[Sw].id # 0
       /\ frees[rxbuf[Sw].id] = 0
       /\ \A k \in 1..Len(got[Sw]) : got[Sw][k].id # rxbuf[Sw].id

\* a 7-byte datagram whose bytes 2..3 declare 7 was read and discarded
C10_Witness ==
    /\ RecvRead(Sw)
    /\ last[Sw].read.data = MsgShort
    /\ last[Sw].ret = EAGAIN
    /\ rxbuf[Sw].id # 0

\* the last call on v got a hard error from the stream
HardIoError(c) ==
    /\ c.op \in {"recv", "send", "run"}
    /\ c.nsend + c.nrecv = 1
    /\ c.sret < 0 /\ c.sret # -EAGAIN

\* C11: after a recv, send or run in which the stream returned a hard error
\* the socket handle is open and the stream and the vconn exist; and the
\* only call that closes an open handle is close.
C11_NoSelfDestruct ==
    /\ [](HardIoError(last[Sw]) => StillOpen(Sw))
    /\ [][(fd[Sw] = "open" /\ fd'[Sw] # "open")
          => (last'[Sw].op = "close" /\ fdCloses'[Sw] = fdCloses[Sw] + 1)]_vars
    /\ [][(vconn[Sw] = "open" /\ vconn'[Sw] # "open")
          => last'[Sw].op = "close"]_vars

\* a run met a hard error after a recv had, and the endpoint is still open
C11_Witness ==
    /\ HardIoError(last[Sw])
    /\ last[Sw].op = "run"
    /\ rhist[Sw][2] = "error"
    /\ StillOpen(Sw)

\* the step is a send of v
SendStep(v) == last'[v].op = "send" /\ last'[v] # last[v]

\* C12: a send of a message longer than 65535 bytes returns EMSGSIZE and
\* leaves the transmit slot, the receive buffer, the stream, the socket and
\* the network as they were; and a send within the limit that the stream
\* accepts whole returns 0 with the message on the network, whatever calls
\* preceded it.
C12_RejectLocal ==
    /\ [][(SendStep(Sw) /\ last'[Sw].msg.size > MAX_OPENFLOW_MSG_SIZE)
          => /\ last'[Sw].ret = EMSGSIZE
             /\ txbuf' = txbuf /\ rxbuf' = rxbuf
             /\ streamVars' = streamVars /\ sockVars' = sockVars
             /\ vconn' = vconn /\ cstatus' = cstatus
             /\ wire' = wire /\ inq' = inq]_vars
    /\ []((/\ last[Sw].op = "send"
           /\ last[Sw].msg.size <= MAX_OPENFLOW_MSG_SIZE
           /\ last[Sw].sret = last[Sw].msg.size)
          => /\ last[Sw].ret = 0
             /\ wire[Sw] # <<>>
             /\ wire[Sw][Len(wire[Sw])].data = Contents(last[Sw].msg))

\* with a message queued and a receive buffer held, an oversized send was
\* refused and the next send went out whole
C12_Witness ==
    /\ last[Sw].op = "send" /\ last[Sw].ret = 0 /\ last[Sw].msg.id = 3
    /\ fate[2] = "toolarge"
    /\ fate[3] = "sent"
    /\ txbuf[Sw].id = 1
    /\ rxbuf[Sw].id # 0

\* C13: an open that fails in address parsing, in socket() or in
\* set_nonblocking() returns the error of that step and leaves no stream, no
\* vconn and no open socket handle: a socket that had been created (the
\* set_nonblocking failure) was closed, once.
C13_OpenFailure ==
    (last[Sw].op = "open" /\ last[Sw].ret # 0)
    => /\ last[Sw].ret \in {EAFNOSUPPORT, EMFILE, EBADF}
       /\ stream[Sw] = "none"
       /\ vconn[Sw] = "none"
       /\ fd[Sw] # "open"
       /\ fd[Sw] = "closed" <=> last[Sw].ret = EBADF
       /\ fdCloses[Sw] = (IF fd[Sw] = "closed" THEN 1 ELSE 0)
       /\ rxbuf[Sw] = NULL /\ txbuf[Sw] = NULL

\* set_nonblocking failed on a created socket, which was closed once
C13_Witness ==
    /\ last[Sw].op = "open"
    /\ last[Sw].ret = EBADF
    /\ fd[Sw] = "closed"
    /\ fdCloses[Sw] = 1
    /\ vconn[Sw] = "none"

\* C14: an open in which connect() failed (the socket has no default peer)
\* returns 0 with a stream and a vconn whose connect status is 0, the
\* destination of later sends set; and while it is open the stream of such
\* a socket stays connected.
C14_UnreachableOpen ==
    /\ (last[Sw].op = "open" /\ fd[Sw] = "open" /\ kpeer[Sw] = "none")
       => /\ last[Sw].ret = 0
          /\ StillOpen(Sw)
          /\ connected[Sw]
          /\ cstatus[Sw] = 0
          /\ remote[Sw] = PeerOf(Sw)
    /\ (stream[Sw] = "open" /\ kpeer[Sw] = "none")
       => (connected[Sw] /\ cstatus[Sw] = 0)

\* an endpoint whose connect() had failed met a hard error in a later send
C14_Witness ==
    /\ kpeer[Sw] = "none"
    /\ StillOpen(Sw)
    /\ connected[Sw]
    /\ last[Sw].op = "send"
    /\ HardIoError(last[Sw])

\* C15: the connect status of every vconn an open created is 0 (connected,
\* not EAGAIN) from the moment open returns, in every later state, and a
\* connect call on it, while it is open, returns 0.
C15_SynchronousConnect ==
    /\ vconn[Sw] = "open" => (cstatus[Sw] = 0 /\ connected[Sw])
    /\ (last[Sw].op = "open" /\ last[Sw].ret = 0) => vconn[Sw] = "open"
    /\ (last[Sw].op = "connect" /\ vconn[Sw] = "open") => last[Sw].ret = 0

\* a connect call on an opened vconn returned 0 at once
C15_Witness ==
    /\ last[Sw].op = "connect"
    /\ last[Sw].ret = 0
    /\ vconn[Sw] = "open"
    /\ cstatus[Sw] = 0

\* C16: a close of a vconn with a message in the transmit slot releases the
\* message and hands nothing to the network, and nothing is handed to the
\* network once the vconn is closed.
C16_CloseDiscards ==
    /\ [][(vconn[Sw] = "open" /\ vconn'[Sw] = "freed" /\ txbuf[Sw].id # 0)
          => /\ wire' = wire
             /\ frees'[txbuf[Sw].id] = frees[txbuf[Sw].id] + 1
             /\ fate'[txbuf[Sw].id] = "closed"]_vars
    /\ [][vconn[Sw] = "freed" => wire' = wire]_vars
    /\ [](\A i \in TxIds :
              fate[i] = "closed"
              => /\ frees[i] >= 1
                 /\ \A k \in 1..Len(wire[Sw]) :
                        wire[Sw][k].id = i
                        => wire[Sw][k].data.size < wire[Sw][k].of.size)

\* a vconn was closed with a message queued, and nothing was transmitted
C16_Witness ==
    /\ last[Sw].op = "close"
    /\ txbuf[Sw].id # 0
    /\ fate[txbuf[Sw].id] = "closed"
    /\ frees[txbuf[Sw].id] = 1
    /\ wire[Sw] = <<>>

\* the buffers the vconn of v is answerable for: allocated, not released and
\* not handed to the caller
LiveTx(v) == {i \in 1..nbuf.tx : frees[i] = 0}
LiveRx(v) == {i \in (RxBase + 1)..(RxBase + nbuf.rx) :
                 /\ frees[i] = 0
                 /\ \A k \in 1..Len(got[v]) : got[v][k].id # i}

\* C17: while the vconn is open, the only message handed to send that is
\* not released is the one in the transmit slot, and the only receive buffer
\* the vconn allocated that is neither released nor handed to the caller is
\* the one in the receive slot: the vconn holds at most one of each.
C17_SingleSlot ==
    vconn[Sw] = "open"
    => /\ LiveTx(Sw) = {txbuf[Sw].id} \ {0}
       /\ LiveRx(Sw) = {rxbuf[Sw].id} \ {0}
       /\ Cardinality(LiveTx(Sw)) <= 1
       /\ Cardinality(LiveRx(Sw)) <= 1

\* three sends found the stream would block and a datagram was discarded:
\* one message is queued, one receive buffer is held
C17_Witness ==
    /\ vconn[Sw] = "open"
    /\ \A i \in 1..3 : fate[i] \in {"queued", "replaced"}
    /\ txbuf[Sw].id = 3
    /\ rhist[Sw][2] = "short"
    /\ rxbuf[Sw].id # 0
    /\ LiveTx(Sw) = {3}

\* C18 as stated: a send in which the stream accepted fewer bytes than the
\* message holds returns an error that is neither success nor EAGAIN, and
\* the message is not queued.
C18_PartialIsError ==
    LET c == last[Sw] IN
    (c.op = "send" /\ c.nsend = 1 /\ c.sret >= 0 /\ c.sret < c.msg.size)
    => /\ c.ret # 0
       /\ c.ret # EAGAIN
       /\ txbuf[Sw].id # c.msg.id

\* C19 as stated: a run whose flush met a hard error empties the transmit
\* slot, and the recv or send that follows it returns that error.
C19_FlushErrorSurfaced ==
    /\ []((last[Sw].op = "run" /\ HardIoError(last[Sw]))
          => txbuf[Sw] = NULL)
    /\ [][(/\ last[Sw].op = "run" /\ HardIoError(last[Sw])
           /\ last'[Sw] # last[Sw]
           /\ last'[Sw].op \in {"recv", "send"})
          => last'[Sw].ret = -last[Sw].sret]_vars

\* C20 as stated: after a send in which the stream accepted the whole
\* message the transmit slot is empty.
C20_FullSendClears ==
    LET c == last[Sw] IN
    (c.op = "send" /\ c.nsend = 1 /\ c.sret = c.msg.size)
    => txbuf[Sw] = NULL

\* message i went out whole in one datagram
SentWhole(v, i) ==
    \E k \in 1..Len(wire[v]) :
        wire[v][k].id = i /\ wire[v][k].data = wire[v][k].of

RunBlocked(v) ==
    /\ last'[v].op = "run"
    /\ last'[v].nsend = 1
    /\ last'[v].sret = -EAGAIN

\* C22: when run tries to flush the queued message and the stream send
\* returns WouldBlock, the transmit slot holds the same message after run
\* returns, run returns 0, and nothing else in the vconn changes: the
\* receive slot, the stream and its socket, the connect status, what went
\* out on the wire and the set of released buffers are all as before.
C22_BlockedFlushKeeps ==
    [][RunBlocked(Sw) =>
          /\ txbuf[Sw].id # 0
          /\ txbuf'[Sw] = txbuf[Sw]
          /\ last'[Sw].msg = txbuf[Sw]
          /\ last'[Sw].ret = 0
          /\ rxbuf' = rxbuf /\ vconn' = vconn /\ cstatus' = cstatus
          /\ stream' = stream /\ remote' = remote /\ connected' = connected
          /\ fd' = fd /\ fdCloses' = fdCloses /\ nonblock' = nonblock
          /\ wire' = wire /\ frees' = frees /\ fate' = fate]_vars

C22_Witness ==
    /\ last[Sw].op = "run"
    /\ last[Sw].nsend = 1
    /\ last[Sw].sret = -EAGAIN
    /\ txbuf[Sw].id # 0
    /\ txbuf[Sw] = last[Sw].msg
    /\ fate[txbuf[Sw].id] = "queued"

\* C23: the stream's peer address is set by open and changed by no later
\* recv, send, connect or run: while the stream is open its peer address is
\* the one its target named, and every datagram it sent is addressed there,
\* whatever source addresses inbound datagrams arrived from.
C23_PeerFixed ==
    stream[Sw] = "open"
    => /\ remote[Sw] = PeerOf(Sw)
       /\ \A k \in 1..Len(wire[Sw]) : wire[Sw][k].dst = PeerOf(Sw)

\* the last call on v was a wait with interest w
Waited(v, w) == vconn[v] = "open" /\ last[v].op = "wait" /\ last[v].want = w

\* C24: wait with CONNECT interest on the datagram vconn (which hands it to
\* the datagram stream) registers an immediate wake-up, so that a poll loop
\* blocking after it is woken without any socket event.
C24_ConnectImmediate ==
    Waited(Sw, "CONNECT") => "WAKE" \in last[Sw].reg

\* C25: wait with SEND interest registers socket-writability interest with
\* the stream if and only if the transmit slot holds a message; with an
\* empty slot it registers nothing at all.
C25_SendInterest ==
    Waited(Sw, "SEND")
    => /\ ("POLLOUT" \in last[Sw].reg) <=> (txbuf[Sw].id # 0)
       /\ txbuf[Sw].id = 0 => last[Sw].reg = {}
       /\ txbuf[Sw].id # 0 => last[Sw].reg = {"POLLOUT"}

C25_Witness ==
    /\ Waited(Sw, "SEND")
    /\ txbuf[Sw].id # 0
    /\ fate[txbuf[Sw].id] = "queued"
    /\ last[Sw].reg = {"POLLOUT"}

\* the socket call failed with would-block / with another errno
SysBlocked(o) == o.retval < 0 /\ o.errno \in {EAGAIN, EWOULDBLOCK}
SysHard(o) == o.retval < 0 /\ o.errno \notin {EAGAIN, EWOULDBLOCK}

\* C26: WouldBlock is kept distinct from hard errors through both layers.
\* The stream recv returns WouldBlock exactly when recvfrom reports
\* EAGAIN/EWOULDBLOCK or a zero-length datagram, the stream send exactly
\* when sendto reports EAGAIN/EWOULDBLOCK, and on any other failure they
\* return the socket's own error code; the vconn recv returns EAGAIN for a
\* stream WouldBlock and the same positive code for a stream hard error.
C26_WouldBlockDistinct ==
    LET c == last[Sw]
        o == last[Sw].sys
    IN
    /\ (c.op = "recv" /\ c.nrecv = 1)
       => /\ (c.sret = -EAGAIN) <=> (SysBlocked(o) \/ o.retval = 0)
          /\ SysHard(o) => c.sret = -o.errno
          /\ c.sret = -EAGAIN => c.ret = EAGAIN
          /\ (c.sret < 0 /\ c.sret # -EAGAIN)
             => c.ret = -c.sret /\ c.ret # EAGAIN /\ c.ret > 0
    /\ (c.op \in {"send", "run"} /\ c.nsend = 1)
       => /\ (c.sret = -EAGAIN) <=> SysBlocked(o)
          /\ SysHard(o) => c.sret = -o.errno

C26_Witness ==
    /\ last[Sw].op = "recv"
    /\ last[Sw].nrecv = 1
    /\ SysHard(last[Sw].sys)
    /\ last[Sw].sret = -ECONNREFUSED
    /\ last[Sw].ret = ECONNREFUSED

\* the step is a vconn_udp_recv on v (of the specifications whose network
\* only injects datagrams)
RecvStep(v) ==
    /\ vconn[v] = "open" /\ vconn'[v] = "open"
    /\ ninj' = ninj
    /\ last'[v].op = "recv" /\ last'[v].nrecv = 1

\* C27: when the stream recv reads a zero-length datagram (recvfrom returns
\* 0) it returns WouldBlock, neither 0 bytes nor an error; the datagram is
\* consumed; and the vconn recv returns WouldBlock (EAGAIN) without
\* delivering a message.
C27_EmptyDatagram ==
    [][(RecvStep(Sw) /\ last'[Sw].sys.retval = 0)
          => /\ inq[Sw] # <<>>
             /\ Head(inq[Sw]).data.size = 0
             /\ last'[Sw].read = Head(inq[Sw])
             /\ inq'[Sw] = Tail(inq[Sw])
             /\ last'[Sw].sret = -EAGAIN
             /\ last'[Sw].ret = EAGAIN
             /\ last'[Sw].msg = NULL
             /\ got' = got]_vars

C27_Witness ==
    /\ RecvRead(Sw)
    /\ last[Sw].read.data.size = 0
    /\ last[Sw].sys.retval = 0
    /\ last[Sw].sret = -EAGAIN
    /\ last[Sw].ret = EAGAIN
    /\ got[Sw] = <<>>

\* C28: every vconn recv invokes the stream recv exactly once, and every
\* vconn send of a message within the size limit invokes the stream send
\* exactly once, whatever the outcome; accordingly one call takes at most
\* one datagram from the socket and puts at most one on the wire.
C28_OneStreamCall ==
    /\ [](/\ last[Sw].op = "recv"
             => last[Sw].nrecv = 1 /\ last[Sw].nsend = 0
          /\ (last[Sw].op = "send"
                /\ last[Sw].msg.size <= MAX_OPENFLOW_MSG_SIZE)
             => last[Sw].nsend = 1 /\ last[Sw].nrecv = 0)
    /\ [][/\ Len(wire'[Sw]) <= Len(wire[Sw]) + 1
          /\ Len(inq'[Sw]) >= Len(inq[Sw]) - 1]_vars

C28_Witness ==
    /\ last[Sw].op = "send"
    /\ last[Sw].msg.size <= MAX_OPENFLOW_MSG_SIZE
    /\ last[Sw].sret = -EAGAIN
    /\ last[Sw].nsend = 1
    /\ wire[Sw] = <<>>
    /\ got[Sw] # <<>>

\* C29: when the vconn recv returns a message, the receive slot is empty
\* afterwards and the returned buffer belongs to the caller alone: no later
\* recv or close releases it or uses it as the receive buffer again (the
\* buffers handed out are pairwise distinct and none is the one in the
\* slot); on every non-success return of recv no buffer is handed over.
C29_OwnershipTransfer ==
    /\ [](/\ \A k \in 1..Len(got[Sw]) :
                /\ got[Sw][k].id # 0
                /\ frees[got[Sw][k].id] = 0
                /\ rxbuf[Sw].id # got[Sw][k].id
                /\ \A j \in 1..Len(got[Sw]) :
                       j # k => got[Sw][j].id # got[Sw][k].id
          /\ (last[Sw].op = "recv" /\ last[Sw].ret = 0)
             => /\ rxbuf[Sw] = NULL
                /\ got[Sw] # <<>>
                /\ last[Sw].msg = got[Sw][Len(got[Sw])]
          /\ (last[Sw].op = "recv" /\ last[Sw].ret # 0)
             => last[Sw].msg = NULL)
    /\ [][(RecvStep(Sw) /\ last'[Sw].ret # 0) => got' = got]_vars

C29_Witness ==
    /\ vconn[Sw] = "freed"
    /\ last[Sw].op = "close"
    /\ Len(got[Sw]) = 2
    /\ frees[got[Sw][1].id] = 0 /\ frees[got[Sw][2].id] = 0

\* C30: every stream a successful open returned has its socket in
\* non-blocking mode, so that no call waits for the network: a recv with no
\* datagram available and a send or flush with no buffer space can return
\* at once, and they return WouldBlock.
C30_NonBlocking ==
    /\ stream[Sw] = "open" => nonblock[Sw]
    /\ (StillOpen(Sw) /\ ~ub /\ inq[Sw] = <<>>)
       => ENABLED vconn_udp_recv(Sw, Outcome(-1, EAGAIN))
    /\ (StillOpen(Sw) /\ ~ub)
       => ENABLED vconn_udp_send(Sw, MsgHello1, Outcome(-1, EAGAIN))
    /\ (StillOpen(Sw) /\ ~ub /\ txbuf[Sw].id # 0)
       => ENABLED vconn_udp_run(Sw, Outcome(-1, EAGAIN))
    /\ (last[Sw].op = "recv" /\ last[Sw].nrecv = 1
          /\ last[Sw].read = NoDgram /\ ~SysHard(last[Sw].sys))
       => last[Sw].sret = -EAGAIN /\ last[Sw].ret = EAGAIN
    /\ (last[Sw].op \in {"send", "run"} /\ last[Sw].nsend = 1
          /\ SysBlocked(last[Sw].sys))
       => last[Sw].sret = -EAGAIN /\ last[Sw].ret = 0

C30_Witness ==
    /\ StillOpen(Sw)
    /\ nonblock[Sw]
    /\ last[Sw].op = "recv"
    /\ last[Sw].nrecv = 1
    /\ last[Sw].read = NoDgram
    /\ SysBlocked(last[Sw].sys)
    /\ last[Sw].ret = EAGAIN

\* the step is a vconn_udp_connect on the open endpoint v
ConnectStep(v) ==
    /\ vconn[v] = "open" /\ vconn'[v] = "open"
    /\ ninj' = ninj
    /\ last'[v].op = "connect"

\* C31: connect on an open datagram stream returns CONNECTED (0) on every
\* call, in every state, and changes nothing: the stream, its socket, the
\* connect status and both buffers after the call are what they were
\* before, so any number of calls leaves the state one call leaves.
C31_ConnectIdempotent ==
    /\ []((vconn[Sw] = "open" /\ last[Sw].op = "connect")
            => last[Sw].ret = 0 /\ connected[Sw] /\ cstatus[Sw] = 0)
    /\ [][ConnectStep(Sw)
            => /\ last'[Sw].ret = 0
               /\ connected' = connected /\ cstatus' = cstatus
               /\ stream' = stream /\ remote' = remote
               /\ fd' = fd /\ fdCloses' = fdCloses /\ nonblock' = nonblock
               /\ kpeer' = kpeer /\ inq' = inq /\ wire' = wire
               /\ rxbuf' = rxbuf /\ txbuf' = txbuf
               /\ frees' = frees /\ fate' = fate /\ got' = got]_vars

C31_Witness ==
    /\ vconn[Sw] = "open"
    /\ last[Sw].op = "connect"
    /\ last[Sw].ret = 0
    /\ kpeer[Sw] = "none"
    /\ txbuf[Sw].id # 0

\* the step is a vconn_udp_run on the open endpoint v with an empty slot
IdleRunStep(v) ==
    /\ vconn[v] = "open" /\ vconn'[v] = "open"
    /\ ninj' = ninj
    /\ txbuf[v].id = 0
    /\ last'[v].op = "run"

\* C32: the stream's run changes no stream state and does no I/O, and the
\* vconn's run with an empty transmit slot makes no stream send call and
\* leaves the receive buffer and the transmit slot as they were; nothing
\* goes out, nothing is read, nothing is released.
C32_IdleRun ==
    [][IdleRunStep(Sw)
          => /\ last'[Sw].nsend = 0 /\ last'[Sw].nrecv = 0
             /\ last'[Sw].ret = 0
             /\ rxbuf' = rxbuf /\ txbuf' = txbuf
             /\ stream' = stream /\ remote' = remote
             /\ connected' = connected /\ cstatus' = cstatus
             /\ fd' = fd /\ fdCloses' = fdCloses /\ nonblock' = nonblock
             /\ wire' = wire /\ inq' = inq
             /\ frees' = frees /\ fate' = fate /\ got' = got]_vars

C32_Witness ==
    /\ vconn[Sw] = "open"
    /\ last[Sw].op = "run"
    /\ last[Sw].nsend = 0
    /\ txbuf[Sw].id = 0
    /\ rxbuf[Sw].id # 0
    /\ inq[Sw] # <<>>

\* C33: every message the vconn recv returns with success is at least a
\* protocol header (8 bytes) long, whatever length the datagram's header
\* declares, the lengths 0..7 included.
C33_AtLeastHeader ==
    /\ \A k \in 1..Len(got[Sw]) : got[Sw][k].size >= OFP_HEADER_LEN
    /\ (vconn[Sw] = "open" /\ last[Sw].op = "recv" /\ last[Sw].ret = 0)
       => last[Sw].msg.size >= OFP_HEADER_LEN

\* the k-th datagram the stream of v accepted is a whole message
WholeOnWire(v, k) == wire[v][k].data = wire[v][k].of

\* C34: the vconn never hands a message to the stream after one that was
\* given to send later: the messages the stream accepted whole went out in
\* the order they were given to send (buffer ids count the sends), also
\* when the earlier message was queued on WouldBlock and the later one
\* found the stream writable.
C34_LocalOrder ==
    \A j, k \in 1..Len(wire[Sw]) :
        (j < k /\ WholeOnWire(Sw, j) /\ WholeOnWire(Sw, k))
        => wire[Sw][j].id <= wire[Sw][k].id

\* C35: once the stream has accepted any bytes of a message (a full or a
\* partial write, in send or in the flush of run), no later send or run
\* hands that message to the stream again: no two datagrams the stream
\* accepted carry bytes of the same message.
C35_NoDuplicate ==
    \A j, k \in 1..Len(wire[Sw]) :
        j # k => wire[Sw][j].id # wire[Sw][k].id

C37_ReleasedOnce ==
    \A i \in 1..nbuf.tx :
        /\ frees[i] <= 1
        /\ vconn[Sw] = "open" => ((frees[i] = 0) <=> (txbuf[Sw].id = i))
        /\ vconn[Sw] = "freed" => frees[i] = 1

C37_Witness ==
    /\ vconn[Sw] = "freed"
    /\ nbuf.tx = 3
    /\ fate[1] = "replaced"
    /\ fate[2] = "closed"
    /\ fate[3] \in {"sent", "partial", "error", "toolarge"}
    /\ \A i \in 1..3 : frees[i] = 1

\* C38: each stream recv call removes at most one datagram from the socket
\* - the head of its queue when it reads one, none when it fails - and a
\* datagram the vconn recv discards (zero-length, shorter than a header or
\* declaring more bytes than received) is gone with that: the next recv
\* reads the next datagram in the socket, if any.
C38_DiscardConsumes ==
    [][RecvStep(Sw)
          => IF last'[Sw].sys.retval >= 0
             THEN /\ inq[Sw] # <<>>
                  /\ last'[Sw].read = Head(inq[Sw])
                  /\ inq'[Sw] = Tail(inq[Sw])
             ELSE /\ last'[Sw].read = NoDgram
                  /\ inq'[Sw] = inq[Sw]]_vars

C38_Witness ==
    /\ vconn[Sw] = "open"
    /\ last[Sw].op = "recv" /\ last[Sw].ret = 0
    /\ rhist[Sw][1] \in {"empty", "short", "trunc"}
    /\ rhist[Sw][2] = "exact"
    /\ inq[Sw] = <<>>
    /\ ninj = 2

\* C39: the vconn recv maps a stream recv result of 0 to EOF, but the
\* datagram stream's recv never returns 0 (a zero-length datagram becomes
\* WouldBlock), so the vconn recv never returns EOF.
C39_NoEof ==
    (vconn[Sw] = "open" /\ last[Sw].op = "recv")
    => /\ last[Sw].sret # 0
       /\ last[Sw].ret # EOF
       /\ last[Sw].ret \in {0, EAGAIN} \cup HardErrnos

C39_Witness ==
    /\ vconn[Sw] = "open"
    /\ last[Sw].op = "recv"
    /\ rhist[Sw] = <<"empty", "empty">>
    /\ last[Sw].sys.retval = 0
    /\ last[Sw].ret = EAGAIN
    /\ recv_error_return(0) = EOF

====
